---- MODULE Spec2Model ----
(***************************************************************************)
(* Canvas MCP server (src/src/server.py): sixteen tool handlers, each a    *)
(* coroutine that builds a CanvasAPI client, awaits one or more GETs and   *)
(* projects the JSON it receives.  An invocation is modelled step by step: *)
(* a GET is issued (it becomes outstanding), the upstream answers or       *)
(* fails, and the handler resumes with the reply.                          *)
(*                                                                         *)
(* JSON values: a dict is a function from key strings to values; a value   *)
(* that may be null is a sequence of length 0 (None) or 1 (the value).     *)
(*                                                                         *)
(* Left out: the query parameters of the requests (dates, bucket,          *)
(* per_page, include[]) and the assignment_id argument, which no handler   *)
(* branches on.  Upstream records are JSON objects whose keys are present  *)
(* or absent; nested objects (plannable, grades, author) are objects when  *)
(* present.                                                                *)
(***************************************************************************)
EXTENDS Integers, Sequences, FiniteSets, TLC

VARIABLES
    canvas,         \* upstream: the active-courses list Canvas returns, and
                    \* the planner lists it may return
    pc,             \* per invocation: position of the handler coroutine
    tool,           \* per invocation: the tool invoked
    course_id,      \* per invocation: the course_id argument (None if absent)
    outstanding,    \* GETs in flight (set of [inv, seq, req])
    reply,          \* per invocation: what the awaited GET produced
    courses,        \* per frame: local list the fan-out loop iterates over
    idx,            \* per frame: position of the fan-out loop in courses
    acc,            \* per frame: all_missing / all_discussions / all_quizzes
    outcome,        \* per invocation: returned value or propagated error
    gets,           \* per invocation: log of the requests issued
    resps           \* per invocation: log of the replies received

vars == <<canvas, pc, tool, course_id, outstanding, reply, courses,
          idx, acc, outcome, gets, resps>>

----------------------------------------------------------------------------
(* Bounds of the model *)

MaxCourses == 6       \* longest active-courses list, one invocation
ConcMaxCourses == 1   \* longest active-courses list, concurrent invocations
FairMaxCourses == 4   \* longest active-courses list, liveness checking
MaxItems == 4         \* longest list a per-course endpoint returns
MaxPlanner == 2       \* longest planner/items list, one invocation
ConcMaxPlanner == 1   \* longest planner/items list, concurrent invocations

Invocations == {1, 2}  \* invocations served concurrently
Single == {1}          \* one invocation served on its own

(* Program constants *)

CourseSlice == 5      \* courses[:5]
DiscussionSlice == 3  \* course_discussions[:3]

----------------------------------------------------------------------------
(* Python values *)

None == <<>>
Some(v) == <<v>>
EmptyDict == [k \in {} |-> None]

\* bool(x) for an Optional[int]: None and 0 are falsy
Truthy(x) == x # None /\ x[1] # 0

\* dict.get(k) and dict.get(k, default)
Get(d, k) == IF k \in DOMAIN d THEN d[k] ELSE None
GetDefault(d, k, dflt) == IF k \in DOMAIN d THEN d[k] ELSE dflt

\* d[k] = v
Put(d, k, v) == [x \in (DOMAIN d) \cup {k} |-> IF x = k THEN v ELSE d[x]]

\* s[:n]
Slice(s, n) == SubSeq(s, 1, IF Len(s) < n THEN Len(s) ELSE n)

RECURSIVE Flatten(_)
Flatten(ss) == IF ss = <<>> THEN <<>> ELSE Head(ss) \o Flatten(Tail(ss))

----------------------------------------------------------------------------
(* Tools and their requests *)

Tools ==
    {"upcoming_assignments", "todos", "dashboard_courses", "course_assignments",
     "calendar_events", "course_announcements", "grades", "missing_assignments",
     "unread_messages", "assignment_details", "submission_status",
     "course_modules", "discussions", "quizzes", "notifications",
     "course_syllabus"}

\* tools whose signature has course_id: int
RequiredCourseTools ==
    {"course_assignments", "assignment_details", "submission_status",
     "course_modules", "course_syllabus"}

\* tools whose signature has course_id: Optional[int] = None
OptionalCourseTools == {"grades", "discussions", "quizzes"}

\* a request: the endpoint template and the course id formatted into it
Req(path, cid) == [path |-> path, cid |-> cid]

\* the condition of `if course_id:` in get_grades, get_discussions, get_quizzes
CourseIdGiven(cid) == Truthy(cid)

\* the handler takes the active-courses fan-out path
IsFanout(t, cid) ==
    \/ t = "missing_assignments"
    \/ t \in {"discussions", "quizzes"} /\ ~CourseIdGiven(cid)

\* endpoint of the first GET of each handler
FirstRequest(t, cid) ==
    CASE t = "upcoming_assignments" -> Req("planner/items", None)
      [] t = "todos" -> Req("users/self/todo", None)
      [] t = "dashboard_courses" -> Req("dashboard/dashboard_cards", None)
      [] t = "course_assignments" -> Req("courses/{}/assignments", cid)
      [] t = "calendar_events" -> Req("calendar_events", None)
      [] t = "course_announcements" -> Req("announcements", None)
      [] t = "grades" ->
            IF CourseIdGiven(cid) THEN Req("courses/{}/enrollments", cid)
            ELSE Req("users/self/enrollments", None)
      [] t = "missing_assignments" -> Req("courses", None)
      [] t = "unread_messages" -> Req("conversations", None)
      [] t = "assignment_details" -> Req("courses/{}/assignments/{}", cid)
      [] t = "submission_status" ->
            Req("courses/{}/assignments/{}/submissions/self", cid)
      [] t = "course_modules" -> Req("courses/{}/modules", cid)
      [] t = "discussions" ->
            IF CourseIdGiven(cid) THEN Req("courses/{}/discussion_topics", cid)
            ELSE Req("courses", None)
      [] t = "quizzes" ->
            IF CourseIdGiven(cid) THEN Req("courses/{}/quizzes", cid)
            ELSE Req("courses", None)
      [] t = "notifications" -> Req("users/self/activity_stream", None)
      [] t = "course_syllabus" -> Req("courses/{}", cid)

\* endpoint of the per-course GET inside the fan-out loop
SubRequest(t, course) ==
    CASE t = "missing_assignments" ->
            Req("courses/{}/assignments", Get(course, "id"))
      [] t = "discussions" ->
            Req("courses/{}/discussion_topics", Get(course, "id"))
      [] t = "quizzes" -> Req("courses/{}/quizzes", Get(course, "id"))

----------------------------------------------------------------------------
(* Projections: the dict literal each handler builds from an upstream record *)

\* {key: d.get(key) for key in keys}
Pick(d, keys) == [k \in keys |-> Get(d, k)]

\* get_upcoming_assignments, the dict appended per planner item
UpcomingRecord(item) ==
    LET plannable == GetDefault(item, "plannable", EmptyDict)
    IN  [title |-> Get(plannable, "title"),
         due_at |-> Get(plannable, "due_at"),
         points_possible |-> Get(plannable, "points_possible"),
         course_id |-> Get(item, "course_id"),
         assignment_id |-> Get(plannable, "id"),
         html_url |-> Get(item, "html_url")]

\* the test of `if item.get("plannable_type") == "assignment"`
KeepsEveryItem(item) == TRUE
IsAssignmentItem(item) == Get(item, "plannable_type") = Some("assignment")

TodoRecord(todo) ==
    LET assignment == GetDefault(todo, "assignment", EmptyDict)
    IN  [assignment_name |-> Get(assignment, "name"),
         due_at |-> Get(assignment, "due_at"),
         course_id |-> Get(assignment, "course_id"),
         assignment_id |-> Get(assignment, "id"),
         type |-> Get(todo, "type"),
         needs_grading_count |->
             GetDefault(todo, "needs_grading_count", Some(0)),
         html_url |-> Get(assignment, "html_url")]

DashboardRecord(card) ==
    [id |-> Get(card, "id"),
     course_code |-> Get(card, "course_code"),
     short_name |-> Get(card, "shortName"),
     name |-> Get(card, "originalName"),
     href |-> Get(card, "href")]

CourseAssignmentRecord(a) ==
    [id |-> Get(a, "id"),
     name |-> Get(a, "name"),
     description |-> Get(a, "description"),
     due_at |-> Get(a, "due_at"),
     points_possible |-> Get(a, "points_possible"),
     submission_types |-> GetDefault(a, "submission_types", Some(<<>>)),
     html_url |-> Get(a, "html_url"),
     has_submitted_submissions |->
         GetDefault(a, "has_submitted_submissions", Some(FALSE))]

CalendarRecord(event) ==
    Pick(event, {"title", "start_at", "end_at", "type", "description",
                 "location_name", "html_url", "context_code"})

AnnouncementRecord(a) ==
    [title |-> Get(a, "title"),
     message |-> Get(a, "message"),
     posted_at |-> Get(a, "posted_at"),
     author |-> Get(GetDefault(a, "author", EmptyDict), "display_name"),
     context_code |-> Get(a, "context_code"),
     html_url |-> Get(a, "html_url")]

\* the test of `if enrollment.get("type") == "StudentEnrollment"`
IsStudentEnrollment(e) == Get(e, "type") = Some("StudentEnrollment")

GradeRecord(e) ==
    LET grades == GetDefault(e, "grades", EmptyDict)
    IN  [course_id |-> Get(e, "course_id"),
         current_score |-> Get(grades, "current_score"),
         final_score |-> Get(grades, "final_score"),
         current_grade |-> Get(grades, "current_grade"),
         final_grade |-> Get(grades, "final_grade"),
         unposted_current_score |-> Get(grades, "unposted_current_score"),
         unposted_current_grade |-> Get(grades, "unposted_current_grade")]

\* get_missing_assignments, the dict appended per assignment of a course
MissingRecord(course, a) ==
    [course_name |-> Get(course, "name"),
     course_id |-> Get(course, "id"),
     assignment_id |-> Get(a, "id"),
     name |-> Get(a, "name"),
     due_at |-> Get(a, "due_at"),
     points_possible |-> Get(a, "points_possible"),
     html_url |-> Get(a, "html_url")]

MessageRecord(c) ==
    LET ps == GetDefault(c, "participants", <<>>)
    IN  [id |-> Get(c, "id"),
         subject |-> Get(c, "subject"),
         last_message |-> Get(c, "last_message"),
         last_message_at |-> Get(c, "last_message_at"),
         message_count |-> Get(c, "message_count"),
         participants |-> Some([k \in 1..Len(ps) |-> Get(ps[k], "name")]),
         context_name |-> Get(c, "context_name")]

AssignmentDetails(a) ==
    [id |-> Get(a, "id"),
     name |-> Get(a, "name"),
     description |-> Get(a, "description"),
     due_at |-> Get(a, "due_at"),
     points_possible |-> Get(a, "points_possible"),
     submission_types |-> GetDefault(a, "submission_types", Some(<<>>)),
     allowed_attempts |-> Get(a, "allowed_attempts"),
     grading_type |-> Get(a, "grading_type"),
     html_url |-> Get(a, "html_url"),
     rubric |-> GetDefault(a, "rubric", Some(<<>>)),
     has_submitted_submissions |->
         GetDefault(a, "has_submitted_submissions", Some(FALSE))]

SubmissionStatus(s) ==
    Pick(s, {"id", "assignment_id", "submitted_at", "workflow_state", "grade",
             "score", "attempt", "late", "missing", "excused", "preview_url"})

ModuleRecord(m) ==
    LET its == GetDefault(m, "items", <<>>)
    IN  [id |-> Get(m, "id"),
         name |-> Get(m, "name"),
         position |-> Get(m, "position"),
         unlock_at |-> Get(m, "unlock_at"),
         state |-> Get(m, "state"),
         items |-> [k \in 1..Len(its) |->
                       Pick(its[k], {"id", "title", "type", "html_url",
                                     "position"})]]

DiscussionRecord(d) ==
    Pick(d, {"id", "title", "message", "posted_at", "discussion_type",
             "unread_count", "html_url", "course_name"})

QuizRecord(q) ==
    Pick(q, {"id", "title", "description", "due_at", "lock_at", "unlock_at",
             "points_possible", "question_count", "time_limit", "html_url",
             "course_name", "course_id"})

NotificationRecord(item) ==
    Pick(item, {"id", "title", "message", "type", "created_at", "html_url",
                "context_type"})

Syllabus(course) ==
    [course_id |-> Get(course, "id"),
     course_name |-> Get(course, "name"),
     course_code |-> Get(course, "course_code"),
     syllabus_body |-> Get(course, "syllabus_body"),
     start_at |-> Get(course, "start_at"),
     end_at |-> Get(course, "end_at"),
     time_zone |-> Get(course, "time_zone")]

\* what a handler that issues a single GET returns for the body it received
ProjectBody(t, body) ==
    LET n == IF t \in {"assignment_details", "submission_status",
                       "course_syllabus"}
             THEN 0 ELSE Len(body)
    IN  CASE t = "upcoming_assignments" ->
                LET kept == SelectSeq(body, IsAssignmentItem)
                IN  [k \in 1..Len(kept) |-> UpcomingRecord(kept[k])]
          [] t = "todos" -> [k \in 1..n |-> TodoRecord(body[k])]
          [] t = "dashboard_courses" ->
                [k \in 1..n |-> DashboardRecord(body[k])]
          [] t = "course_assignments" ->
                [k \in 1..n |-> CourseAssignmentRecord(body[k])]
          [] t = "calendar_events" -> [k \in 1..n |-> CalendarRecord(body[k])]
          [] t = "course_announcements" ->
                [k \in 1..n |-> AnnouncementRecord(body[k])]
          [] t = "grades" ->
                LET kept == SelectSeq(body, IsStudentEnrollment)
                IN  [k \in 1..Len(kept) |-> GradeRecord(kept[k])]
          [] t = "unread_messages" -> [k \in 1..n |-> MessageRecord(body[k])]
          [] t = "assignment_details" -> AssignmentDetails(body)
          [] t = "submission_status" -> SubmissionStatus(body)
          [] t = "course_modules" -> [k \in 1..n |-> ModuleRecord(body[k])]
          [] t = "discussions" -> [k \in 1..n |-> DiscussionRecord(body[k])]
          [] t = "quizzes" -> [k \in 1..n |-> QuizRecord(body[k])]
          [] t = "notifications" -> [k \in 1..n |-> NotificationRecord(body[k])]
          [] t = "course_syllabus" -> Syllabus(body)

\* the list the fan-out loop iterates over: courses, or courses[:5]
LoopCoursesAll(t, body) == body
LoopCourses(t, body) ==
    IF t = "discussions" THEN Slice(body, CourseSlice) ELSE body

\* the entries one successful per-course GET adds to the accumulator
Collected(t, course, body) ==
    CASE t = "missing_assignments" ->
            [k \in 1..Len(body) |-> MissingRecord(course, body[k])]
      [] t = "discussions" ->
            LET kept == Slice(body, DiscussionSlice)
            IN  [k \in 1..Len(kept) |->
                    Put(kept[k], "course_name", Get(course, "name"))]
      [] t = "quizzes" ->
            [k \in 1..Len(body) |->
                Put(Put(body[k], "course_name", Get(course, "name")),
                    "course_id", Get(course, "id"))]

\* what the fan-out handler returns once the loop is over
FanoutResult(t, all) ==
    CASE t = "missing_assignments" -> all
      [] t = "discussions" -> [k \in 1..Len(all) |-> DiscussionRecord(all[k])]
      [] t = "quizzes" -> [k \in 1..Len(all) |-> QuizRecord(all[k])]

----------------------------------------------------------------------------
(* The upstream: what Canvas may answer to each request *)

FailureKinds == {"http", "unavailable", "decode"}

CourseIdArgs == {0, 1}

Course(c) == [id |-> Some(c), name |-> Some(<<"course", c>>)]

\* active-courses lists of up to n courses: courses 2, 3, ..., m, 1
CourseLists(n) == {[k \in 1..m |-> Course((k % m) + 1)] : m \in 0..n}

ItemCounts == {0, 1, MaxItems}

\* the k-th record of a per-course list; its html_url names the course
Item(cid, k) ==
    [id |-> Some(k), name |-> Some("n"), title |-> Some("t"),
     html_url |-> Some(<<cid, k>>)]

ItemLists(cid) == {[k \in 1..n |-> Item(cid, k)] : n \in ItemCounts}

PlannerKinds ==
    {[plannable_type |-> Some("assignment")],
     [plannable_type |-> Some("assignment"), plannable |-> [id |-> Some(1)]],
     [plannable_type |-> Some("assignment"),
      plannable |-> [id |-> Some(2), due_at |-> Some("d")]],
     [plannable_type |-> Some("calendar_event"),
      plannable |-> [id |-> Some(3), due_at |-> Some("d")]],
     [plannable |-> [id |-> Some(4), due_at |-> Some("d")]]}

\* planner lists of up to m items; the k-th item carries html_url k
PlannerLists(m) ==
    UNION {{[k \in 1..n |-> Put(f[k], "html_url", Some(k))] :
               f \in [1..n -> PlannerKinds]} : n \in 0..m}

Enrollment(type, c) ==
    [type |-> Some(type), course_id |-> Some(c),
     grades |-> [current_score |-> Some(c)]]

EnrollmentLists ==
    {<<>>, <<Enrollment("StudentEnrollment", 1)>>,
     <<Enrollment("TeacherEnrollment", 1), Enrollment("StudentEnrollment", 2)>>}

PlainLists == {<<>>, <<[id |-> Some(1)]>>}

\* the 2xx bodies the upstream may return for a request
Bodies(req) ==
    CASE req.path = "courses" -> {canvas.courses}
      [] req.path \in {"courses/{}/assignments", "courses/{}/discussion_topics",
                       "courses/{}/quizzes"} -> ItemLists(req.cid)
      [] req.path = "planner/items" -> canvas.planner
      [] req.path \in {"courses/{}/enrollments", "users/self/enrollments"} ->
            EnrollmentLists
      [] req.path \in {"courses/{}/assignments/{}",
                       "courses/{}/assignments/{}/submissions/self",
                       "courses/{}"} -> {[id |-> Some(1)]}
      [] OTHER -> PlainLists

----------------------------------------------------------------------------
(* CanvasAPI.get and the handlers, step by step *)

Ok(body) == [ok |-> TRUE, kind |-> "none", body |-> body]
Failed(kind) == [ok |-> FALSE, kind |-> kind, body |-> <<>>]
NoReply == [ok |-> FALSE, kind |-> "none", body |-> <<>>]

Pending == [status |-> "pending", value |-> <<>>, error |-> "none"]
Returned(v) == [status |-> "returned", value |-> v, error |-> "none"]
Raised(kind) == [status |-> "error", value |-> <<>>, error |-> kind]

\* what the logs keep of a reply
Logged(r) == [ok |-> r.ok, body |-> r.body]

Served == DOMAIN pc

\* the frame of a call: its locals courses, the loop position, the accumulator
SharedFrame(i) == 1
Frame(i) == i

\* client.get(..., timeout=30.0): a request the upstream leaves unanswered fails
NoTimeout == FALSE
RequestTimeout == TRUE

\* the handler is suspended at `await canvas.get(...)` inside the loop
NotAwaited == "loop"
SubIssuedPc == "sub_wait"

\* is a failure of the GET awaited at position p inside a try/except: ?
CaughtEverywhere(t, p) == TRUE
CaughtOnlyInNotifications(t, p) == t = "notifications"
CaughtOnlyInLoops(t, p) == p = "sub_resume"
Caught(t, p) == p = "sub_resume" \/ t = "notifications"

\* `continue` in the except clause: the for loop moves to the next course
RetrySameCourse(n) == n
AdvanceAfterFailure(n) == n + 1

\* the for loop is exhausted
LoopDone(n, cs) == n > Len(cs)

TypeOK ==
    /\ Served \subseteq Invocations
    /\ \A i \in Served :
          /\ pc[i] \in {"idle", "start", "wait", "resume", "loop", "sub_wait",
                        "sub_resume", "done"}
          /\ tool[i] \in Tools \cup {"none"}
          /\ outcome[i].status \in {"pending", "returned", "error"}
          /\ idx[i] \in Nat

InitWith(S, lists, planner) ==
    /\ canvas \in {[courses |-> cs, planner |-> planner] : cs \in lists}
    /\ pc = [i \in S |-> "idle"]
    /\ tool = [i \in S |-> "none"]
    /\ course_id = [i \in S |-> None]
    /\ outstanding = {}
    /\ reply = [i \in S |-> NoReply]
    /\ courses = [i \in S |-> <<>>]
    /\ idx = [i \in S |-> 0]
    /\ acc = [i \in S |-> <<>>]
    /\ outcome = [i \in S |-> Pending]
    /\ gets = [i \in S |-> <<>>]
    /\ resps = [i \in S |-> <<>>]

\* one invocation served
Init ==
    InitWith(Single, CourseLists(MaxCourses), PlannerLists(MaxPlanner))

\* one invocation served, shorter course lists
FairInit ==
    InitWith(Single, CourseLists(FairMaxCourses), PlannerLists(MaxPlanner))

\* the runtime serves several invocations concurrently
ConcInit ==
    InitWith(Invocations, CourseLists(ConcMaxCourses),
             PlannerLists(ConcMaxPlanner))

ArgsOf(t) ==
    IF t \in RequiredCourseTools THEN {Some(c) : c \in CourseIdArgs}
    ELSE IF t \in OptionalCourseTools
         THEN {None} \cup {Some(c) : c \in CourseIdArgs}
         ELSE {None}

\* the runtime dispatches a tool call to its handler
Invoke(i) ==
    /\ pc[i] = "idle"
    /\ \E t \in Tools : \E cid \in ArgsOf(t) :
          /\ tool' = [tool EXCEPT ![i] = t]
          /\ course_id' = [course_id EXCEPT ![i] = cid]
    /\ pc' = [pc EXCEPT ![i] = "start"]
    /\ UNCHANGED <<canvas, outstanding, reply, courses, idx, acc,
                   outcome, gets, resps>>

\* CanvasAPI.get up to `await client.get(...)`
Send(i, req) ==
    /\ outstanding' = outstanding \cup
          {[inv |-> i, seq |-> Len(gets[i]) + 1, req |-> req, hung |-> FALSE]}
    /\ gets' = [gets EXCEPT ![i] = Append(@, req)]

\* the handler's first `await canvas.get(...)`
IssueFirst(i) ==
    /\ pc[i] = "start"
    /\ Send(i, FirstRequest(tool[i], course_id[i]))
    /\ pc' = [pc EXCEPT ![i] = "wait"]
    /\ UNCHANGED <<canvas, tool, course_id, reply, courses, idx, acc,
                   outcome, resps>>

\* CanvasAPI.get after the await: the coroutine gets a value or an exception
Deliver(i, r, rep) ==
    /\ pc[i] \in {"wait", "sub_wait"}
    /\ outstanding' = outstanding \ {r}
    /\ reply' = [reply EXCEPT ![i] = rep]
    /\ resps' = [resps EXCEPT ![i] = Append(@, Logged(rep))]
    /\ pc' = [pc EXCEPT ![i] = IF @ = "wait" THEN "resume" ELSE "sub_resume"]
    /\ UNCHANGED <<canvas, tool, course_id, courses, idx, acc, outcome,
                   gets>>

\* a 2xx response with a JSON body
UpstreamResponds(i) ==
    \E r \in outstanding :
        /\ r.inv = i /\ ~r.hung
        /\ \E body \in Bodies(r.req) : Deliver(i, r, Ok(body))

\* raise_for_status, a connection error, or response.json() raising
UpstreamFails(i) ==
    \E r \in outstanding :
        /\ r.inv = i /\ ~r.hung
        /\ \E kind \in FailureKinds : Deliver(i, r, Failed(kind))

\* the upstream never answers this request
UpstreamHangs(i) ==
    \E r \in outstanding :
        /\ r.inv = i /\ ~r.hung
        /\ outstanding' = (outstanding \ {r}) \cup {[r EXCEPT !.hung = TRUE]}
        /\ UNCHANGED <<canvas, pc, tool, course_id, reply, courses,
                       idx, acc, outcome, gets, resps>>

\* the 30 s timeout of client.get fires
Timeout(i) ==
    \E r \in outstanding :
        /\ r.inv = i /\ r.hung
        /\ RequestTimeout
        /\ Deliver(i, r, Failed("unavailable"))

\* an exception no try block catches ends the invocation
Propagate(i) ==
    /\ pc[i] \in {"resume", "sub_resume"}
    /\ ~reply[i].ok
    /\ ~Caught(tool[i], pc[i])
    /\ outcome' = [outcome EXCEPT ![i] = Raised(reply[i].kind)]
    /\ pc' = [pc EXCEPT ![i] = "done"]
    /\ reply' = [reply EXCEPT ![i] = NoReply]
    /\ UNCHANGED <<canvas, tool, course_id, outstanding, courses, idx,
                   acc, gets, resps>>

\* get_notifications: `except: return []`
ExceptReturnEmpty(i) ==
    /\ pc[i] = "resume"
    /\ ~reply[i].ok
    /\ Caught(tool[i], pc[i])
    /\ outcome' = [outcome EXCEPT ![i] = Returned(<<>>)]
    /\ pc' = [pc EXCEPT ![i] = "done"]
    /\ reply' = [reply EXCEPT ![i] = NoReply]
    /\ UNCHANGED <<canvas, tool, course_id, outstanding, courses, idx,
                   acc, gets, resps>>

\* a handler with a single GET projects the body and returns
ReturnProjected(i) ==
    /\ pc[i] = "resume"
    /\ reply[i].ok
    /\ ~IsFanout(tool[i], course_id[i])
    /\ outcome' = [outcome EXCEPT
                      ![i] = Returned(ProjectBody(tool[i], reply[i].body))]
    /\ pc' = [pc EXCEPT ![i] = "done"]
    /\ reply' = [reply EXCEPT ![i] = NoReply]
    /\ UNCHANGED <<canvas, tool, course_id, outstanding, courses, idx,
                   acc, gets, resps>>

\* the fan-out handlers: courses fetched, accumulator created, loop entered
EnterLoop(i) ==
    /\ pc[i] = "resume"
    /\ reply[i].ok
    /\ IsFanout(tool[i], course_id[i])
    /\ courses' = [courses EXCEPT
                      ![Frame(i)] = LoopCourses(tool[i], reply[i].body)]
    /\ idx' = [idx EXCEPT ![Frame(i)] = 1]
    /\ acc' = [acc EXCEPT ![Frame(i)] = <<>>]
    /\ pc' = [pc EXCEPT ![i] = "loop"]
    /\ reply' = [reply EXCEPT ![i] = NoReply]
    /\ UNCHANGED <<canvas, tool, course_id, outstanding, outcome, gets,
                   resps>>

\* loop body: `await canvas.get(f"courses/{...}/...")` for the next course
IssueSub(i) ==
    /\ pc[i] = "loop"
    /\ idx[Frame(i)] <= Len(courses[Frame(i)])
    /\ Send(i, SubRequest(tool[i], courses[Frame(i)][idx[Frame(i)]]))
    /\ pc' = [pc EXCEPT ![i] = SubIssuedPc]
    /\ UNCHANGED <<canvas, tool, course_id, reply, courses, idx, acc,
                   outcome, resps>>

\* loop body: the records of the course are appended
SubCollect(i) ==
    /\ pc[i] = "sub_resume"
    /\ reply[i].ok
    /\ acc' = [acc EXCEPT
                  ![Frame(i)] =
                      @ \o Collected(tool[i], courses[Frame(i)][idx[Frame(i)]],
                                     reply[i].body)]
    /\ idx' = [idx EXCEPT ![Frame(i)] = @ + 1]
    /\ pc' = [pc EXCEPT ![i] = "loop"]
    /\ reply' = [reply EXCEPT ![i] = NoReply]
    /\ UNCHANGED <<canvas, tool, course_id, outstanding, courses,
                   outcome, gets, resps>>

\* loop body: `except: continue`
SubExcept(i) ==
    /\ pc[i] = "sub_resume"
    /\ ~reply[i].ok
    /\ Caught(tool[i], pc[i])
    /\ idx' = [idx EXCEPT ![Frame(i)] = AdvanceAfterFailure(@)]
    /\ pc' = [pc EXCEPT ![i] = "loop"]
    /\ reply' = [reply EXCEPT ![i] = NoReply]
    /\ UNCHANGED <<canvas, tool, course_id, outstanding, courses, acc,
                   outcome, gets, resps>>

\* after the loop: project the accumulator and return
FanoutReturn(i) ==
    /\ pc[i] = "loop"
    /\ LoopDone(idx[Frame(i)], courses[Frame(i)])
    /\ outcome' = [outcome EXCEPT
                      ![i] = Returned(FanoutResult(tool[i], acc[Frame(i)]))]
    /\ pc' = [pc EXCEPT ![i] = "done"]
    /\ UNCHANGED <<canvas, tool, course_id, outstanding, reply,
                   courses, idx, acc, gets, resps>>

Handler(i) ==
    \/ IssueFirst(i)
    \/ Propagate(i)
    \/ ExceptReturnEmpty(i)
    \/ ReturnProjected(i)
    \/ EnterLoop(i)
    \/ IssueSub(i)
    \/ SubCollect(i)
    \/ SubExcept(i)
    \/ FanoutReturn(i)

Completion(i) == UpstreamResponds(i) \/ UpstreamFails(i) \/ Timeout(i)

Next ==
    \/ \E i \in Served : Invoke(i)
    \/ \E i \in Served : IssueFirst(i)
    \/ \E i \in Served : UpstreamResponds(i)
    \/ \E i \in Served : UpstreamFails(i)
    \/ \E i \in Served : UpstreamHangs(i)
    \/ \E i \in Served : Timeout(i)
    \/ \E i \in Served : Propagate(i)
    \/ \E i \in Served : ExceptReturnEmpty(i)
    \/ \E i \in Served : ReturnProjected(i)
    \/ \E i \in Served : EnterLoop(i)
    \/ \E i \in Served : IssueSub(i)
    \/ \E i \in Served : SubCollect(i)
    \/ \E i \in Served : SubExcept(i)
    \/ \E i \in Served : FanoutReturn(i)

Spec == Init /\ [][Next]_vars

ConcSpec == ConcInit /\ [][Next]_vars

\* the event loop runs every ready coroutine; every request is answered,
\* fails, or is cut off by the timeout
Fairness(S) == \A i \in S : WF_vars(Handler(i)) /\ WF_vars(Completion(i))

FairSpec == FairInit /\ [][Next]_vars /\ Fairness(Single)

----------------------------------------------------------------------------
(* Properties *)

Done(i) == pc[i] = "done"

\* the active-courses list an invocation received, once it has one
CoursesReceived(i) == Len(resps[i]) >= 1 /\ resps[i][1].ok

\* an invocation of the fan-out of tool t that has its active-courses list
InFanout(i, t) ==
    /\ tool[i] = t
    /\ IsFanout(t, course_id[i])
    /\ CoursesReceived(i)

\* C1: get_missing_assignments succeeds whatever per-course sub-fetches fail,
\* and returns, in course-list order, the projected assignments of exactly
\* the courses whose sub-fetch did not fail; the loop visits every course.
C1_MissingSkipsFailedCourses ==
    \A i \in Served :
        (InFanout(i, "missing_assignments") /\ Done(i)) =>
            LET cs == resps[i][1].body
                PerCourse(j) ==
                    IF resps[i][j + 1].ok
                    THEN [k \in 1..Len(resps[i][j + 1].body) |->
                             MissingRecord(cs[j], resps[i][j + 1].body[k])]
                    ELSE <<>>
            IN  /\ Len(resps[i]) = Len(cs) + 1
                /\ outcome[i] =
                       Returned(Flatten([j \in 1..Len(cs) |-> PerCourse(j)]))

\* three courses, the second sub-fetch failed, courses 1 and 3 contributed
C1_Witness ==
    \E i \in Served :
        /\ InFanout(i, "missing_assignments") /\ Done(i)
        /\ Len(resps[i][1].body) = 3
        /\ resps[i][2].ok /\ ~resps[i][3].ok /\ resps[i][4].ok
        /\ Len(resps[i][2].body) = 1 /\ Len(resps[i][4].body) = 1
        /\ Len(outcome[i].value) = 2
        /\ outcome[i].value[1].course_id # outcome[i].value[2].course_id

\* C2: a failed GET outside the swallowing sites (every first GET except the
\* one of notifications) ends the invocation in an error with no result, and
\* nothing else does: no error comes from a per-course sub-fetch.
C2_FailuresPropagate ==
    \A i \in Served :
        /\ (Done(i) /\ tool[i] # "notifications" /\ ~resps[i][1].ok) =>
               /\ outcome[i].status = "error"
               /\ outcome[i].value = <<>>
               /\ outcome[i].error \in FailureKinds
               /\ Len(gets[i]) = 1
        /\ outcome[i].status = "error" =>
               /\ Done(i)
               /\ tool[i] # "notifications"
               /\ Len(resps[i]) = 1 /\ ~resps[i][1].ok
        /\ outcome[i].status = "returned" =>
               /\ Done(i)
               /\ tool[i] = "notifications" \/ resps[i][1].ok

\* the single-course fetch of discussions failed and the error propagated
C2_Witness ==
    \E i \in Served :
        /\ tool[i] = "discussions" /\ course_id[i] = Some(1)
        /\ gets[i] = <<Req("courses/{}/discussion_topics", Some(1))>>
        /\ Done(i) /\ outcome[i].status = "error"

\* C3: get_notifications returns the empty list, never an error, when the
\* activity-stream fetch fails.
C3_NotificationsSwallow ==
    \A i \in Served :
        (tool[i] = "notifications" /\ Done(i) /\ ~resps[i][1].ok) =>
            outcome[i] = Returned(<<>>)

C3_Witness ==
    \E i \in Served :
        /\ tool[i] = "notifications" /\ Done(i)
        /\ gets[i] = <<Req("users/self/activity_stream", None)>>
        /\ ~resps[i][1].ok
        /\ outcome[i].status = "returned"

\* the course-scoped endpoint of a tool with an optional course_id
ScopedRequest(t, cid) ==
    CASE t = "grades" -> Req("courses/{}/enrollments", cid)
      [] t = "discussions" -> Req("courses/{}/discussion_topics", cid)
      [] t = "quizzes" -> Req("courses/{}/quizzes", cid)

\* C5: grades, discussions and quizzes query the course-scoped endpoint for
\* every course_id that is supplied, 0 included, and take the all-courses
\* path only when course_id is absent.
C5_EndpointByPresence ==
    \A i \in Served :
        (tool[i] \in OptionalCourseTools /\ gets[i] # <<>>) =>
            IF course_id[i] # None
            THEN gets[i][1] = ScopedRequest(tool[i], course_id[i])
            ELSE gets[i][1] =
                     (IF tool[i] = "grades"
                      THEN Req("users/self/enrollments", None)
                      ELSE Req("courses", None))

\* C4: get_discussions without course_id queries only the first 5 courses of
\* the active-courses list, whatever sub-fetches fail, keeps at most the first
\* 3 discussions of each, returns at most 15 records, and tags each record
\* with the name of the course whose sub-fetch returned it.
C4_DiscussionsFanoutBounded ==
    \A i \in Served :
        (InFanout(i, "discussions") /\ course_id[i] = None) =>
            LET cs == resps[i][1].body
                NameOf(cid) ==
                    LET c == CHOOSE c \in {cs[j] : j \in 1..Len(cs)} :
                                 Get(c, "id") = cid
                    IN  Get(c, "name")
                From(v, j) ==
                    {k \in 1..Len(v) : v[k].course_name = Get(cs[j], "name")}
            IN  /\ Len(gets[i]) <= 1 + 5
                /\ \A n \in 2..Len(gets[i]) :
                       gets[i][n] = Req("courses/{}/discussion_topics",
                                        Get(cs[n - 1], "id"))
                /\ Done(i) =>
                      LET v == outcome[i].value
                      IN  /\ outcome[i].status = "returned"
                          /\ Len(gets[i]) =
                                 1 + (IF Len(cs) < 5 THEN Len(cs) ELSE 5)
                          /\ Len(v) <= 15
                          /\ \A j \in 1..Len(cs) :
                                 /\ Cardinality(From(v, j)) <= 3
                                 /\ j > 5 => From(v, j) = {}
                                 /\ (j <= 5 /\ resps[i][j + 1].ok) =>
                                        Cardinality(From(v, j)) =
                                            (IF Len(resps[i][j + 1].body) < 3
                                             THEN Len(resps[i][j + 1].body)
                                             ELSE 3)
                          /\ \A k \in 1..Len(v) :
                                 /\ v[k].html_url # None
                                 /\ v[k].course_name =
                                        NameOf(v[k].html_url[1][1])

\* six active courses, a failed sub-fetch among the first five, a course that
\* returned four discussions of which three were kept
C4_Witness ==
    \E i \in Served :
        /\ InFanout(i, "discussions") /\ course_id[i] = None /\ Done(i)
        /\ Len(resps[i][1].body) = 6
        /\ Len(gets[i]) = 6
        /\ resps[i][2].ok /\ Len(resps[i][2].body) = 4
        /\ ~resps[i][3].ok
        /\ Len(outcome[i].value) = 3

InFlight(i) == {r \in outstanding : r.inv = i}

\* C7: within an invocation of a fan-out tool at most one GET is outstanding;
\* a per-course sub-request is outstanding only after the courses fetch and
\* every earlier sub-request have completed and their records were collected.
C7_FanoutSequential ==
    \A i \in Served :
        /\ Cardinality(InFlight(i)) <= 1
        /\ Len(resps[i]) <= Len(gets[i])
        /\ Len(gets[i]) <= Len(resps[i]) + 1
        /\ \A r \in InFlight(i) :
               /\ r.seq = Len(gets[i])
               /\ Len(resps[i]) = r.seq - 1
               /\ r.seq >= 2 =>
                     LET cs == LoopCourses(tool[i], resps[i][1].body)
                     IN  /\ IsFanout(tool[i], course_id[i])
                         /\ resps[i][1].ok
                         /\ acc[i] =
                               Flatten([j \in 1..(r.seq - 2) |->
                                   IF resps[i][j + 1].ok
                                   THEN Collected(tool[i], cs[j],
                                                  resps[i][j + 1].body)
                                   ELSE <<>>])

\* the third sub-request is in flight and earlier records are collected
C7_Witness ==
    \E i \in Served : \E r \in InFlight(i) :
        /\ tool[i] = "quizzes"
        /\ r.seq = 4
        /\ ~resps[i][2].ok /\ resps[i][3].ok
        /\ acc[i] # <<>>

\* C9: with N active courses, missing_assignments and quizzes without
\* course_id issue exactly 1 + N GETs, one per course in course-list order,
\* whether or not earlier sub-requests failed; nothing is requested twice.
C9_OneGetPerCourse ==
    \A i \in Served :
        ((InFanout(i, "missing_assignments") \/ InFanout(i, "quizzes"))
         /\ course_id[i] = None) =>
            LET cs == resps[i][1].body
                path == IF tool[i] = "quizzes" THEN "courses/{}/quizzes"
                        ELSE "courses/{}/assignments"
            IN  /\ Len(gets[i]) <= 1 + Len(cs)
                /\ gets[i][1] = Req("courses", None)
                /\ \A n \in 2..Len(gets[i]) :
                       gets[i][n] = Req(path, Get(cs[n - 1], "id"))
                /\ \A m, n \in 1..Len(gets[i]) :
                       m # n => gets[i][m] # gets[i][n]
                /\ Done(i) => Len(gets[i]) = 1 + Len(cs)

\* three courses, the first two sub-requests failed, four GETs in all
C9_Witness ==
    \E i \in Served :
        /\ InFanout(i, "quizzes") /\ course_id[i] = None /\ Done(i)
        /\ Len(resps[i][1].body) = 3
        /\ ~resps[i][2].ok /\ ~resps[i][3].ok /\ resps[i][4].ok
        /\ Len(gets[i]) = 4

\* what an invocation returns when it runs alone and receives replies rs
Alone(t, cid, rs) ==
    IF ~rs[1].ok
    THEN IF t = "notifications" THEN [status |-> "returned", value |-> <<>>]
         ELSE [status |-> "error", value |-> <<>>]
    ELSE IF IsFanout(t, cid)
         THEN LET cs == LoopCourses(t, rs[1].body)
              IN  [status |-> "returned",
                   value |-> FanoutResult(t,
                       Flatten([j \in 1..Len(cs) |->
                           IF rs[j + 1].ok
                           THEN Collected(t, cs[j], rs[j + 1].body)
                           ELSE <<>>]))]
         ELSE [status |-> "returned", value |-> ProjectBody(t, rs[1].body)]

ResultAsAlone ==
    \A i \in Served :
        Done(i) =>
            [status |-> outcome[i].status, value |-> outcome[i].value]
                = Alone(tool[i], course_id[i], resps[i])

SameCallSameOutput ==
    \A i, j \in Served :
        (/\ Done(i) /\ Done(j)
         /\ tool[i] = tool[j] /\ course_id[i] = course_id[j]
         /\ resps[i] = resps[j]) =>
            /\ outcome[i].status = outcome[j].status
            /\ outcome[i].value = outcome[j].value

\* a step in which invocation i does not move leaves everything it owns as is
FramesPrivate ==
    \A i \in Served :
        (pc'[i] = pc[i] /\ gets'[i] = gets[i]) =>
            /\ courses'[i] = courses[i]
            /\ idx'[i] = idx[i]
            /\ acc'[i] = acc[i]
            /\ reply'[i] = reply[i]
            /\ resps'[i] = resps[i]
            /\ outcome'[i] = outcome[i]
            /\ tool'[i] = tool[i]
            /\ course_id'[i] = course_id[i]

\* C8: invocations served concurrently share no mutable state: a step of one
\* invocation changes nothing another one owns, under every interleaving each
\* invocation returns what it would return alone for the replies it received,
\* and equal calls that receive equal replies return equal output.
C8_InvocationsIsolated ==
    /\ [](ResultAsAlone /\ SameCallSameOutput)
    /\ [][FramesPrivate]_vars

\* one quizzes fan-out has returned its records while another one, started
\* before the first returned, holds different records of its own
C8_Witness ==
    /\ Served = Invocations
    /\ tool[1] = "quizzes" /\ tool[2] = "quizzes"
    /\ course_id[1] = course_id[2]
    /\ Done(1) /\ outcome[1].status = "returned" /\ outcome[1].value # <<>>
    /\ pc[2] = "loop" /\ acc[2] # <<>>
    /\ Len(acc[2]) # Len(outcome[1].value)

Ended(i) == Done(i) /\ outcome[i].status \in {"returned", "error"}

\* an outcome, once produced, is final
OutcomeFinal ==
    \A i \in Served :
        outcome[i].status # "pending" =>
            outcome'[i] = outcome[i] /\ pc'[i] = pc[i]

\* C10: every invocation, the fan-out tools over any course list and any
\* pattern of sub-fetch failures included, eventually ends in exactly one
\* outcome, a returned result or a propagated error; every GET completes
\* because of the per-request timeout.
C10_InvocationsTerminate ==
    /\ \A i \in Single : (pc[i] = "start") ~> Ended(i)
    /\ [](\A i \in Served : outcome[i].status # "pending" <=> Done(i))
    /\ [][OutcomeFinal]_vars

\* a fan-out over two courses ended although its first sub-request failed
C10_Witness ==
    \E i \in Served :
        /\ tool[i] = "missing_assignments" /\ Ended(i)
        /\ Len(gets[i]) = 3
        /\ ~resps[i][2].ok /\ resps[i][3].ok

====
